---- MODULE Spec2Model ----
(***************************************************************************)
(* A model of filter_csv.py: the function filter_csv() and its helpers.    *)
(*                                                                         *)
(* Python strings are sequences of one-character strings, so that the      *)
(* conversions of the program (int(), float(), split(), replace(),         *)
(* lower(), strptime()) are computed and not assumed.  Python floats are   *)
(* integers: the alphabet of the modelled inputs has no '.', 'e', 'inf' or *)
(* 'nan', so every number the program parses is integral.                  *)
(*                                                                         *)
(* The arguments are those the command line gives: strings, columns,       *)
(* minimum and maximum are str or absent, so every column token is a str   *)
(* (line 138).  The strings argument names no existing file (line 80), and *)
(* csv.reader has already split the input into records of fields.          *)
(***************************************************************************)
EXTENDS Integers, Sequences, FiniteSets, TLC

(***************************************************************************)
(* Python values.                                                          *)
(***************************************************************************)
None == [kind |-> "None", num |-> 0, str |-> <<>>, list |-> <<>>]
Float(n) == [kind |-> "float", num |-> n, str |-> <<>>, list |-> <<>>]
Str(s) == [kind |-> "str", num |-> 0, str |-> s, list |-> <<>>]
List(l) == [kind |-> "list", num |-> 0, str |-> <<>>, list |-> l]

\* bool(v): None, 0.0, '' and [] are false.
Truthy(v) ==
    CASE v.kind = "None" -> FALSE
      [] v.kind = "float" -> v.num # 0
      [] v.kind = "str" -> v.str # <<>>
      [] v.kind = "list" -> v.list # <<>>

(***************************************************************************)
(* Characters.                                                             *)
(***************************************************************************)
Digits == {"0", "1", "2", "3", "4", "5", "6", "7", "8", "9"}

DigitVal(c) ==
    CASE c = "0" -> 0 [] c = "1" -> 1 [] c = "2" -> 2 [] c = "3" -> 3
      [] c = "4" -> 4 [] c = "5" -> 5 [] c = "6" -> 6 [] c = "7" -> 7
      [] c = "8" -> 8 [] c = "9" -> 9

\* ord(c) for the characters of the modelled alphabet.
Ord(c) ==
    CASE c = " " -> 32 [] c = "+" -> 43 [] c = "," -> 44 [] c = "-" -> 45
      [] c \in Digits -> 48 + DigitVal(c)
      [] c = ":" -> 58
      [] c = "A" -> 65 [] c = "B" -> 66 [] c = "F" -> 70 [] c = "O" -> 79
      [] c = "a" -> 97 [] c = "b" -> 98 [] c = "c" -> 99 [] c = "d" -> 100
      [] c = "f" -> 102 [] c = "o" -> 111 [] c = "p" -> 112 [] c = "q" -> 113
      [] c = "r" -> 114 [] c = "x" -> 120 [] c = "y" -> 121 [] c = "z" -> 122

\* str.lower() on one character.
LowerChar(c) ==
    CASE c = "A" -> "a" [] c = "B" -> "b" [] c = "F" -> "f" [] c = "O" -> "o"
      [] OTHER -> c

Lower(s) == [i \in 1..Len(s) |-> LowerChar(s[i])]

\* \w of the re module.
IsWordChar(c) == c \in Digits \/ Ord(c) >= 65

(***************************************************************************)
(* String operations.                                                      *)
(***************************************************************************)
\* s[a:b] with 0 <= a, 0 <= b: Python slices never raise.
Slice(s, a, b) ==
    LET hi == IF b > Len(s) THEN Len(s) ELSE b
    IN  IF a >= hi THEN <<>> ELSE SubSeq(s, a + 1, hi)

\* t occurs in s starting at 1-based position i.
OccursAt(t, s, i) ==
    /\ i >= 1
    /\ i + Len(t) - 1 <= Len(s)
    /\ \A j \in 1..Len(t) : s[i + j - 1] = t[j]

\* t in s
Contains(s, t) == \E i \in 1..(Len(s) + 1) : OccursAt(t, s, i)

\* search(r'\bt\b', s), for a term t of word characters.
SearchWord(t, s) ==
    \E i \in 1..(Len(s) + 1) :
        /\ OccursAt(t, s, i)
        /\ Len(t) > 0
        /\ (i = 1 \/ ~IsWordChar(s[i - 1]))
        /\ (i + Len(t) > Len(s) \/ ~IsWordChar(s[i + Len(t)]))

RECURSIVE Split(_, _)
\* s.split(sep) for a one-character sep
Split(s, sep) ==
    IF \A i \in 1..Len(s) : s[i] # sep
    THEN <<s>>
    ELSE LET p == CHOOSE i \in 1..Len(s) :
                      s[i] = sep /\ \A j \in 1..(i - 1) : s[j] # sep
         IN  <<SubSeq(s, 1, p - 1)>> \o Split(SubSeq(s, p + 1, Len(s)), sep)

RECURSIVE ReplaceCommaSpace(_)
\* s.replace(', ', ',')
ReplaceCommaSpace(s) ==
    IF Len(s) = 0 THEN <<>>
    ELSE IF Len(s) >= 2 /\ s[1] = "," /\ s[2] = " "
         THEN <<",">> \o ReplaceCommaSpace(SubSeq(s, 3, Len(s)))
         ELSE <<s[1]>> \o ReplaceCommaSpace(Tail(s))

RECURSIVE LStrip(_)
LStrip(s) == IF Len(s) > 0 /\ s[1] = " " THEN LStrip(Tail(s)) ELSE s

RECURSIVE RStrip(_)
RStrip(s) ==
    IF Len(s) > 0 /\ s[Len(s)] = " " THEN RStrip(SubSeq(s, 1, Len(s) - 1)) ELSE s

RECURSIVE DigitsValue(_)
DigitsValue(s) ==
    IF Len(s) = 0 THEN 0
    ELSE 10 * DigitsValue(SubSeq(s, 1, Len(s) - 1)) + DigitVal(s[Len(s)])

\* int(s): [ok |-> FALSE] stands for ValueError.
ParseInt(s) ==
    LET t == RStrip(LStrip(s))
        signed == Len(t) > 0 /\ t[1] \in {"-", "+"}
        body == IF signed THEN Tail(t) ELSE t
    IN  IF Len(body) > 0 /\ \A i \in 1..Len(body) : body[i] \in Digits
        THEN [ok |-> TRUE,
              val |-> IF signed /\ t[1] = "-" THEN -DigitsValue(body)
                      ELSE DigitsValue(body)]
        ELSE [ok |-> FALSE, val |-> 0]

\* Lexicographic str <= str by code point.
RECURSIVE StrLe(_, _)
StrLe(a, b) ==
    IF Len(a) = 0 THEN TRUE
    ELSE IF Len(b) = 0 THEN FALSE
    ELSE IF a[1] = b[1] THEN StrLe(Tail(a), Tail(b))
    ELSE Ord(a[1]) < Ord(b[1])

(***************************************************************************)
(* Dates.                                                                  *)
(***************************************************************************)
IsLeap(y) == (y % 4 = 0 /\ y % 100 # 0) \/ y % 400 = 0

DaysInMonth(y, m) ==
    IF m = 2 THEN (IF IsLeap(y) THEN 29 ELSE 28)
    ELSE IF m \in {4, 6, 9, 11} THEN 30 ELSE 31

AllDigits(s) == Len(s) > 0 /\ \A i \in 1..Len(s) : s[i] \in Digits

\* The fields of a string in the zero-padded layout of '%Y-%m-%d %H:%M:%S'.
DateFields(s) ==
    [Y |-> DigitsValue(Slice(s, 0, 4)), m |-> DigitsValue(Slice(s, 5, 7)),
     d |-> DigitsValue(Slice(s, 8, 10)), H |-> DigitsValue(Slice(s, 11, 13)),
     M |-> DigitsValue(Slice(s, 14, 16)), S |-> DigitsValue(Slice(s, 17, 19))]

\* datetime.strptime(s, '%Y-%m-%d %H:%M:%S') succeeds.  The modelled bound
\* strings are zero-padded, so a match has exactly 19 characters.
StrptimeOk(s) ==
    /\ Len(s) = 19
    /\ AllDigits(Slice(s, 0, 4)) /\ s[5] = "-"
    /\ AllDigits(Slice(s, 5, 7)) /\ s[8] = "-"
    /\ AllDigits(Slice(s, 8, 10)) /\ s[11] = " "
    /\ AllDigits(Slice(s, 11, 13)) /\ s[14] = ":"
    /\ AllDigits(Slice(s, 14, 16)) /\ s[17] = ":"
    /\ AllDigits(Slice(s, 17, 19))
    /\ LET f == DateFields(s)
       IN  /\ f.Y >= 1
           /\ f.m \in 1..12
           /\ f.d \in 1..DaysInMonth(f.Y, f.m)
           /\ f.H \in 0..23 /\ f.M \in 0..59 /\ f.S \in 0..59

\* is_date(str_): both attempts use the same format; None raises inside the
\* try and gives False.
is_date(v) == v.kind = "str" /\ StrptimeOk(v.str)

\* is_number(str_): int() or float() accepts it.
is_number(v) == v.kind = "str" /\ ParseInt(v.str).ok

\* float(str_) of a string is_number accepts.
ToFloat(v) == Float(ParseInt(v.str).val)

\* date_str_with_time(date_str, default_time), called on a string of at
\* least 10 characters whose year, month and day slices are integers.
date_str_with_time(date_str, default_time) ==
    LET y == Slice(date_str, 0, 4)
        m == Slice(date_str, 5, 7)
        d == Slice(date_str, 8, 10)
        time == IF Len(date_str) = 19
                THEN Slice(date_str, 11, Len(date_str))
                ELSE default_time
    IN  y \o <<"-">> \o m \o <<"-">> \o d \o <<" ">> \o time

\* Days from 1970-01-01 to the civil date y-m-d.
DaysFromCivil(y, m, d) ==
    LET yy == IF m <= 2 THEN y - 1 ELSE y
        era == yy \div 400
        yoe == yy - era * 400
        mp == IF m > 2 THEN m - 3 ELSE m + 9
        doy == (153 * mp + 2) \div 5 + d - 1
        doe == yoe * 365 + yoe \div 4 - yoe \div 100 + doy
    IN  era * 146097 + doe - 719468

\* datetime_to_timestamp(date_time), utc=True, of the datetime strptime
\* builds from a string in the padded layout.
datetime_to_timestamp(f) ==
    DaysFromCivil(f.Y, f.m, f.d) * 86400 + f.H * 3600 + f.M * 60 + f.S

Time000000 == <<"0", "0", ":", "0", "0", ":", "0", "0">>
Time235959 == <<"2", "3", ":", "5", "9", ":", "5", "9">>

\* Lines 95-100 and 102-107: a bound is converted once, before the file is
\* opened.
ConvertBound(v, default_time) ==
    IF is_date(v)
    THEN Float(datetime_to_timestamp(
             DateFields(date_str_with_time(v.str, default_time))))
    ELSE IF is_number(v) THEN ToFloat(v)
    ELSE v

(***************************************************************************)
(* The program state: the arguments of one invocation of filter_csv, the   *)
(* parsed input file (header line, then data lines), the locals of         *)
(* filter_csv, the output file, and the position in the function.          *)
(***************************************************************************)
VARIABLES
    args,                \* the keyword arguments of filter_csv
    file,                \* the records csv.reader yields; file[1] is the header
    pc,                  \* "start", "configured", "resolve", "inverted",
                         \* "rows", "done", "fatal" (SystemExit), "crashed"
    err,                 \* the exception that ended the run, and its line
    strings,             \* the set of terms (line 87)
    columns,             \* the list of column tokens (line 117 or 135)
    minimum, maximum,    \* the bounds (lines 95-107)
    filter_columns_only, \* line 66, line 110
    header,              \* line 132
    header_filtered,     \* line 123
    columns_to_filter,   \* line 124
    column_i,            \* tokens of columns consumed by the loop of line 137
    int_lines_matched,   \* line 125
    line_num,            \* file_reader.line_num
    filter_match,        \* line 187
    filter_match_bound,  \* whether the local filter_match was ever assigned
    data_to_filter,      \* line 183
    output_opened,       \* the output file exists (line 170)
    output_header,       \* its first row (lines 173-176)
    output_rows,         \* its data rows, each with the input line it came from
    summary,             \* the counters of lines 238-243
    run,                 \* 1: the invocation without invert, 2: the one with
    first_run            \* what invocation 1 left behind

inputs == <<file>>
locals == <<strings, columns, minimum, maximum, filter_columns_only, header,
            header_filtered, columns_to_filter, column_i, int_lines_matched,
            line_num, filter_match, filter_match_bound, data_to_filter>>
outputs == <<output_opened, output_header, output_rows, summary>>
vars == <<args, file, pc, err, locals, outputs, run, first_run>>

NoErr == [exc |-> "none", line |-> 0]
Raised(exc, line) == [exc |-> exc, line |-> line]
NoSummary ==
    [header_total |-> 0, header_unmatched |-> 0, header_matched |-> 0,
     lines_total |-> 0, lines_unmatched |-> 0, lines_matched |-> 0]

(***************************************************************************)
(* Bounded inputs.  One family of inputs per filter mode.                  *)
(***************************************************************************)
MaxRows == 2

RowSeqs(pool) == UNION {[1..n -> pool] : n \in 0..MaxRows}

Range(s) == {s[i] : i \in 1..Len(s)}

s_a == <<"a">>
s_b == <<"b">>
s_c == <<"c">>
s_x == <<"x">>
s_y == <<"y">>
s_foo == <<"f", "o", "o">>
s_bar == <<"b", "a", "r">>

\* String mode: terms, optional columns, text rows, one of them short.
StringModeArgs ==
    {[strings |-> Str(s), columns |-> c, minimum |-> None, maximum |-> None,
      all_words |-> aw, whole_words |-> ww, ignore_cases |-> ic,
      invert |-> FALSE, index_ignore |-> ii] :
        s \in {s_foo, <<"F", "o", "o", "+", "b", "a", "r">>},
        c \in {None, Str(<<"b">>), Str(<<"2">>), Str(<<"b", ",", "a">>)},
        aw \in BOOLEAN, ww \in BOOLEAN, ic \in BOOLEAN, ii \in BOOLEAN}

StringModeFiles ==
    {<<h>> \o rows :
        h \in {<<s_a, s_b>>, <<<<"2">>, <<"1">>>>},
        rows \in RowSeqs({<<s_foo \o <<" ">> \o s_bar, s_x>>,
                          <<s_x, <<"F", "o", "o", "b", "a", "r">>>>,
                          <<s_bar, s_foo>>,
                          <<s_foo>>})}

d_jan01 == <<"2", "0", "2", "0", "-", "0", "1", "-", "0", "1">>
d_jan31 == <<"2", "0", "2", "0", "-", "0", "1", "-", "3", "1">>

\* Range mode: numbers and dates as bounds, with and without a time of day.
RangeModeArgs ==
    {[strings |-> None, columns |-> c, minimum |-> lo, maximum |-> hi,
      all_words |-> FALSE, whole_words |-> FALSE, ignore_cases |-> FALSE,
      invert |-> FALSE, index_ignore |-> ii] :
        c \in {None, Str(<<"b">>), Str(<<"a", ",", "b">>)},
        lo \in {None, Str(<<"0">>), Str(<<"2">>), Str(d_jan01),
                Str(d_jan01 \o <<" ">> \o Time000000)},
        hi \in {None, Str(<<"0">>), Str(<<"5">>), Str(d_jan31),
                Str(d_jan31 \o <<" ">> \o Time235959)},
        ii \in BOOLEAN}

ts_below == <<"1", "5", "7", "7", "8", "3", "6", "7", "9", "9">>
ts_atmax == <<"1", "5", "8", "0", "5", "1", "5", "1", "9", "9">>

RangeModeFiles ==
    {<<h>> \o rows :
        h \in {<<s_a, s_b>>},
        rows \in RowSeqs({<<s_x, <<"3">>>>,
                          <<<<"-", "1">>, <<"7">>>>,
                          <<<<"0">>, ts_atmax>>,
                          <<ts_below, s_y>>,
                          <<<<"1">>>>})}

\* Column-only mode: titles, indexes, repeated and invalid tokens.
ColumnModeArgs ==
    {[strings |-> None, columns |-> Str(c), minimum |-> None, maximum |-> None,
      all_words |-> FALSE, whole_words |-> FALSE, ignore_cases |-> FALSE,
      invert |-> FALSE, index_ignore |-> ii] :
        c \in {<<"b">>, <<"2">>, <<"b", ",", "2">>, <<"c", ",", " ", "a">>,
               <<"a", ",", "b", ",", "c">>, <<"3", ",", "1">>,
               <<"0">>, <<"0", "0">>, <<" ", "0">>, <<"a", ",", " ", "0">>,
               <<"-", "1">>, <<"9">>, <<"a", ",", "z">>, <<"z", ",", "a">>},
        ii \in BOOLEAN}

ColumnModeFiles ==
    {<<h>> \o rows :
        h \in {<<s_a, s_b, s_c>>, <<s_a, s_b, s_a>>, <<<<"2">>, <<"1">>, s_a>>},
        rows \in RowSeqs({<<<<"p">>, <<"q">>, <<"r">>>>,
                          <<<<"p">>, <<"q">>>>,
                          <<<<"p">>>>})}

Inputs ==
    (StringModeArgs \X StringModeFiles)
        \cup (RangeModeArgs \X RangeModeFiles)
        \cup (ColumnModeArgs \X ColumnModeFiles)

\* The locals and the output before the first statement of filter_csv.
Fresh ==
    /\ pc = "start"
    /\ err = NoErr
    /\ strings = {}
    /\ columns = <<>>
    /\ minimum = None
    /\ maximum = None
    /\ filter_columns_only = FALSE
    /\ header = <<>>
    /\ header_filtered = <<>>
    /\ columns_to_filter = <<>>
    /\ column_i = 0
    /\ int_lines_matched = 1
    /\ line_num = 0
    /\ filter_match = FALSE
    /\ filter_match_bound = FALSE
    /\ data_to_filter = List(<<>>)
    /\ output_opened = FALSE
    /\ output_header = <<>>
    /\ output_rows = <<>>
    /\ summary = NoSummary

NoRun == [pc |-> "none", err |-> NoErr, output_opened |-> FALSE,
          output_header |-> <<>>, output_rows |-> <<>>, line_num |-> 0]

Init ==
    /\ \E in \in Inputs : args = in[1] /\ file = in[2]
    /\ Fresh
    /\ run = 1
    /\ first_run = NoRun

(***************************************************************************)
(* Lines 66-121: the filter mode, the bounds, the column tokens.           *)
(***************************************************************************)
\* Lines 84-87: the set of terms of an inline string.
TermSet(s, ignore_cases) ==
    {IF ignore_cases THEN Lower(w) ELSE w : w \in Range(Split(s, "+"))}

\* Lines 116-117: the token list of the columns argument.
TokenList(c) ==
    IF c.kind = "str" THEN Split(ReplaceCommaSpace(c.str), ",") ELSE <<>>

\* Line 119: any(x in columns for x in [0, '0'])
HasZeroToken(tokens) == \E i \in 1..Len(tokens) : tokens[i] = <<"0">>

Fail(exc, line) ==
    /\ pc' = IF exc = "SystemExit" THEN "fatal" ELSE "crashed"
    /\ err' = Raised(exc, line)

\* Lines 77-114: 0 when a filter mode was selected, else the line of the
\* raise SystemExit.
ModeExit(a) ==
    IF Truthy(a.strings) THEN 0
    ELSE IF Truthy(a.minimum) \/ Truthy(a.maximum)
         THEN (IF ~Truthy(a.columns) THEN 93 ELSE 0)
    ELSE IF Truthy(a.columns) THEN 0
    ELSE 114

\* Line 89: the range branch is reached.
RangeBranch(a) ==
    ~Truthy(a.strings) /\ (Truthy(a.minimum) \/ Truthy(a.maximum))

Configure ==
    /\ pc = "start"
    /\ strings' = IF Truthy(args.strings)
                  THEN TermSet(args.strings.str, args.ignore_cases) ELSE {}
    /\ filter_columns_only' =
           (~Truthy(args.strings) /\ ~RangeBranch(args) /\ Truthy(args.columns))
    /\ IF RangeBranch(args) /\ ModeExit(args) = 0
       THEN /\ minimum' = ConvertBound(args.minimum, Time000000)
            /\ maximum' = ConvertBound(args.maximum, Time235959)
       ELSE /\ minimum' = args.minimum
            /\ maximum' = args.maximum
    /\ IF ModeExit(args) # 0
       THEN Fail("SystemExit", ModeExit(args)) /\ columns' = columns
       ELSE /\ columns' = TokenList(args.columns)
            /\ IF HasZeroToken(TokenList(args.columns))
               THEN Fail("SystemExit", 121)
               ELSE pc' = "configured" /\ err' = err
    /\ UNCHANGED <<args, file, header, header_filtered, columns_to_filter,
                   column_i, int_lines_matched, line_num, filter_match,
                   filter_match_bound, data_to_filter, outputs, run, first_run>>

(***************************************************************************)
(* Lines 130-135: the header, and the header as the default token list.    *)
(***************************************************************************)
ReadHeader ==
    /\ pc = "configured"
    /\ header' = file[1]
    /\ line_num' = 1
    /\ columns' = IF strings # {} /\ columns = <<>> THEN file[1] ELSE columns
    /\ column_i' = 0
    /\ pc' = "resolve"
    /\ UNCHANGED <<args, file, err, strings, minimum, maximum,
                   filter_columns_only, header_filtered, columns_to_filter,
                   int_lines_matched, filter_match, filter_match_bound,
                   data_to_filter, outputs, run, first_run>>

(***************************************************************************)
(* Lines 137-152: one token of the column list.                            *)
(***************************************************************************)
\* seq[i] of a Python list: the 1-based position, 0 for IndexError.
PyIndex(seq, i) ==
    IF 0 <= i /\ i < Len(seq) THEN i + 1
    ELSE IF i < 0 /\ -i <= Len(seq) THEN Len(seq) + i + 1
    ELSE 0

\* list.index(x): the 0-based position of the first x.
IndexOf(seq, x) ==
    (CHOOSE i \in 1..Len(seq) : seq[i] = x /\ \A j \in 1..(i - 1) : seq[j] # x) - 1

\* Lines 140-145: the token is an integer.
ResolveIndex(n, hdr) ==
    IF n > Len(hdr) THEN [exc |-> "SystemExit", line |-> 143, add |-> <<>>, title |-> <<>>]
    ELSE IF PyIndex(hdr, n - 1) = 0
         THEN [exc |-> "IndexError", line |-> 145, add |-> <<n - 1>>, title |-> <<>>]
         ELSE [exc |-> "none", line |-> 0, add |-> <<n - 1>>,
               title |-> <<hdr[PyIndex(hdr, n - 1)]>>]

\* ResolveTitle with the unknown title dropped instead of raising.
ResolveTitleSkip(column, hdr) ==
    IF column \notin Range(hdr)
    THEN [exc |-> "none", line |-> 0, add |-> <<>>, title |-> <<>>]
    ELSE [exc |-> "none", line |-> 0, add |-> <<IndexOf(hdr, column)>>,
          title |-> <<column>>]

\* Lines 147-152: int() raised ValueError, the token is a title.
ResolveTitle(column, hdr) ==
    IF column \notin Range(hdr)
    THEN [exc |-> "SystemExit", line |-> 150, add |-> <<>>, title |-> <<>>]
    ELSE [exc |-> "none", line |-> 0, add |-> <<IndexOf(hdr, column)>>,
          title |-> <<column>>]

\* Lines 139-152: the index is tried first, the title on ValueError.
ResolveToken(column, hdr) ==
    IF ParseInt(column).ok
    THEN ResolveIndex(ParseInt(column).val, hdr)
    ELSE ResolveTitle(column, hdr)

ResolveColumn ==
    /\ pc = "resolve"
    /\ column_i < Len(columns)
    /\ LET r == ResolveToken(columns[column_i + 1], header)
       IN  /\ column_i' = column_i + 1
           /\ columns_to_filter' = columns_to_filter \o r.add
           /\ header_filtered' = header_filtered \o r.title
           /\ IF r.exc = "none" THEN pc' = pc /\ err' = err
              ELSE Fail(r.exc, r.line)
    /\ UNCHANGED <<args, file, strings, columns, minimum, maximum,
                   filter_columns_only, header, int_lines_matched, line_num,
                   filter_match, filter_match_bound, data_to_filter, outputs,
                   run, first_run>>

(***************************************************************************)
(* Lines 154-168: the complement of the selection, when only cutting.      *)
(***************************************************************************)
\* list.remove(x) applied for each x of xs in turn; ok is FALSE when a
\* remove finds no x (ValueError).
RECURSIVE RemoveAll(_, _)
RemoveAll(seq, xs) ==
    IF Len(xs) = 0 THEN [ok |-> TRUE, seq |-> seq]
    ELSE IF Head(xs) \notin Range(seq) THEN [ok |-> FALSE, seq |-> seq]
    ELSE LET p == IndexOf(seq, Head(xs)) + 1
         IN  RemoveAll(SubSeq(seq, 1, p - 1) \o SubSeq(seq, p + 1, Len(seq)),
                       Tail(xs))

RangeList(n) == [i \in 1..n |-> i - 1]

\* Lines 157-168.  header_filtered is bound to the list object of header
\* (line 160), so the removals of line 168 are removals from header too.
InvertSelection(hdr, unfiltered_columns, unfiltered_titles) ==
    LET cols == RemoveAll(RangeList(Len(hdr)), unfiltered_columns)
        titles == RemoveAll(hdr, unfiltered_titles)
    IN  IF ~cols.ok
        THEN [exc |-> "ValueError", line |-> 166, columns_to_filter |-> cols.seq,
              header_filtered |-> hdr, header |-> hdr]
        ELSE IF ~titles.ok
        THEN [exc |-> "ValueError", line |-> 168, columns_to_filter |-> cols.seq,
              header_filtered |-> titles.seq, header |-> titles.seq]
        ELSE [exc |-> "none", line |-> 0, columns_to_filter |-> cols.seq,
              header_filtered |-> titles.seq, header |-> titles.seq]

InvertColumns ==
    /\ pc = "resolve"
    /\ column_i = Len(columns)
    /\ IF args.invert /\ filter_columns_only
       THEN LET r == InvertSelection(header, columns_to_filter, header_filtered)
            IN  /\ columns_to_filter' = r.columns_to_filter
                /\ header_filtered' = r.header_filtered
                /\ header' = r.header
                /\ IF r.exc = "none" THEN pc' = "inverted" /\ err' = err
                   ELSE Fail(r.exc, r.line)
       ELSE /\ pc' = "inverted"
            /\ UNCHANGED <<err, columns_to_filter, header_filtered, header>>
    /\ UNCHANGED <<args, file, strings, columns, minimum, maximum,
                   filter_columns_only, column_i, int_lines_matched, line_num,
                   filter_match, filter_match_bound, data_to_filter, outputs,
                   run, first_run>>

(***************************************************************************)
(* Lines 170-176: the output file and its header row.                      *)
(***************************************************************************)
OpenOutput ==
    /\ pc = "inverted"
    /\ output_opened' = TRUE
    /\ output_header' = IF filter_columns_only THEN header_filtered ELSE header
    /\ pc' = "rows"
    /\ UNCHANGED <<args, file, err, locals, output_rows, summary, run, first_run>>

(***************************************************************************)
(* Lines 178-236: one data line.                                           *)
(***************************************************************************)
\* a <= b of two Python values: "T", "F", or "TypeError" for str against
\* float.
Le(a, b) ==
    IF a.kind = "float" /\ b.kind = "float"
    THEN (IF a.num <= b.num THEN "T" ELSE "F")
    ELSE IF a.kind = "str" /\ b.kind = "str"
    THEN (IF StrLe(a.str, b.str) THEN "T" ELSE "F")
    ELSE "TypeError"

\* Lines 195-202: the terms against one field.
StringMatch(data, terms, all_words, whole_words) ==
    IF whole_words
    THEN (all_words /\ \A s \in terms : SearchWord(s, data))
            \/ (~all_words /\ \E s \in terms : SearchWord(s, data))
    ELSE (all_words /\ \A s \in terms : Contains(data, s))
            \/ (~all_words /\ \E s \in terms : Contains(data, s))

\* Lines 210-216: the bounds against one value.  The tests of the bounds are
\* truth tests, and the comparisons are evaluated left to right.
RangeMatch(lo, hi, data) ==
    IF Truthy(lo) /\ Truthy(hi)
    THEN (IF Le(lo, data) = "T" THEN Le(data, hi) ELSE Le(lo, data))
    ELSE IF Truthy(lo) THEN Le(lo, data)
    ELSE Le(data, hi)

\* Lines 187-219 for one column: the exception raised, filter_match, and
\* data_to_filter afterwards.
FilterColumn(line, column, data) ==
    LET p == PyIndex(line, column)
        field == Str(line[p])
    IN  IF strings # {}
        THEN IF p = 0 THEN [exc |-> "IndexError", filter_match |-> FALSE, data |-> data]
             ELSE LET d == IF args.ignore_cases THEN Lower(line[p]) ELSE line[p]
                  IN  [exc |-> "none",
                       filter_match |-> StringMatch(d, strings, args.all_words,
                                                    args.whole_words),
                       data |-> Str(d)]
        ELSE IF Truthy(minimum) \/ Truthy(maximum)
        THEN IF p = 0 THEN [exc |-> "IndexError", filter_match |-> FALSE, data |-> data]
             ELSE LET d == IF is_number(field) THEN ToFloat(field) ELSE field
                      m == RangeMatch(minimum, maximum, d)
                  IN  [exc |-> IF m = "TypeError" THEN "TypeError" ELSE "none",
                       filter_match |-> (m = "T"),
                       data |-> d]
        ELSE IF filter_columns_only
        THEN IF p = 0 THEN [exc |-> "IndexError", filter_match |-> FALSE, data |-> data]
             ELSE [exc |-> "none", filter_match |-> FALSE,
                   data |-> List(data.list \o <<line[p]>>)]
        ELSE [exc |-> "none", filter_match |-> FALSE, data |-> data]

RECURSIVE FilterColumns(_, _, _, _, _)

\* OnIndexError with the bypass leaving the loop instead of continuing it.
OnIndexErrorBreak(line, k, bound, fm, data) ==
    IF args.index_ignore
    THEN [exc |-> "none", bound |-> bound, filter_match |-> fm, data |-> data]
    ELSE [exc |-> "IndexError", bound |-> bound, filter_match |-> fm, data |-> data]

\* Lines 224-227: IndexError at column k of the selection.
OnIndexError(line, k, bound, fm, data) ==
    IF args.index_ignore
    THEN FilterColumns(line, k + 1, bound, fm, data)
    ELSE [exc |-> "IndexError", bound |-> bound, filter_match |-> fm, data |-> data]

\* Lines 185-227: the columns of the selection from the k-th on.
FilterColumns(line, k, bound, fm, data) ==
    IF k > Len(columns_to_filter)
    THEN [exc |-> "none", bound |-> bound, filter_match |-> fm, data |-> data]
    ELSE LET r == FilterColumn(line, columns_to_filter[k], data)
         IN  IF r.exc = "IndexError"
             THEN OnIndexError(line, k, TRUE, r.filter_match, r.data)
             ELSE IF r.exc # "none" \/ r.filter_match
             THEN [exc |-> r.exc, bound |-> TRUE,
                   filter_match |-> r.filter_match, data |-> r.data]
             ELSE FilterColumns(line, k + 1, TRUE, r.filter_match, r.data)

\* WriteDecision with the invert flag left out.
WriteDecisionNoInvert(fm, invert, columns_only, data) ==
    \/ fm
    \/ (columns_only /\ data.list # <<>>)

\* Lines 232-234: whether the line is written.
WriteDecision(fm, invert, columns_only, data) ==
    \/ (fm /\ ~invert)
    \/ (~fm /\ invert)
    \/ (columns_only /\ data.list # <<>>)

FilterLine ==
    /\ pc = "rows"
    /\ line_num < Len(file)
    /\ LET line == file[line_num + 1]
           r == FilterColumns(line, 1, filter_match_bound, filter_match,
                              List(<<>>))
           written == IF filter_columns_only THEN r.data.list ELSE line
       IN  /\ line_num' = line_num + 1
           /\ filter_match' = r.filter_match
           /\ filter_match_bound' = r.bound
           /\ data_to_filter' = r.data
           /\ IF r.exc # "none"
              THEN /\ Fail(r.exc, IF strings # {} THEN 190
                                  ELSE IF r.exc = "TypeError"
                                       THEN (IF Truthy(minimum) /\ Truthy(maximum)
                                             THEN 211
                                             ELSE IF Truthy(minimum) THEN 214
                                             ELSE 215)
                                  ELSE IF filter_columns_only THEN 219
                                  ELSE 205)
                   /\ UNCHANGED <<int_lines_matched, output_rows>>
              ELSE IF ~r.bound
              THEN \* filter_match is read at line 232 and was never assigned
                   /\ Fail("UnboundLocalError", 232)
                   /\ UNCHANGED <<int_lines_matched, output_rows>>
              ELSE IF WriteDecision(r.filter_match, args.invert,
                                    filter_columns_only, r.data)
              THEN /\ int_lines_matched' = int_lines_matched + 1
                   /\ output_rows' = Append(output_rows,
                          [line_num |-> line_num + 1, row |-> written])
                   /\ UNCHANGED <<pc, err>>
              ELSE UNCHANGED <<pc, err, int_lines_matched, output_rows>>
    /\ UNCHANGED <<args, file, strings, columns, minimum, maximum,
                   filter_columns_only, header, header_filtered,
                   columns_to_filter, column_i, output_opened, output_header,
                   summary, run, first_run>>

(***************************************************************************)
(* Lines 238-253: the counters of the summary.                             *)
(***************************************************************************)
Counters(hdr, hdr_filtered, lines_total, lines_matched) ==
    LET int_header_total == Len(hdr)
        int_header_unmatched == int_header_total - Len(hdr_filtered)
        int_header_matched == int_header_total - int_header_unmatched
    IN  [header_total |-> int_header_total,
         header_unmatched |-> int_header_unmatched,
         header_matched |-> int_header_matched,
         lines_total |-> lines_total,
         lines_unmatched |-> lines_total - lines_matched,
         lines_matched |-> lines_matched]

Summary ==
    /\ pc = "rows"
    /\ line_num = Len(file)
    /\ summary' = Counters(header, header_filtered, line_num, int_lines_matched)
    /\ pc' = "done"
    /\ UNCHANGED <<args, file, err, locals, output_opened, output_header,
                   output_rows, run, first_run>>

(***************************************************************************)
(* Lines 357-370: filter_csv is invoked again on the same input with the   *)
(* same criteria and invert set.                                           *)
(***************************************************************************)
Ended == pc \in {"done", "fatal", "crashed"}

InvokeInverted ==
    /\ Ended
    /\ run = 1
    /\ run' = 2
    /\ first_run' = [pc |-> pc, err |-> err, output_opened |-> output_opened,
                     output_header |-> output_header,
                     output_rows |-> output_rows, line_num |-> line_num]
    /\ args' = [args EXCEPT !.invert = TRUE]
    /\ pc' = "start"
    /\ err' = NoErr
    /\ strings' = {}
    /\ columns' = <<>>
    /\ minimum' = None
    /\ maximum' = None
    /\ filter_columns_only' = FALSE
    /\ header' = <<>>
    /\ header_filtered' = <<>>
    /\ columns_to_filter' = <<>>
    /\ column_i' = 0
    /\ int_lines_matched' = 1
    /\ line_num' = 0
    /\ filter_match' = FALSE
    /\ filter_match_bound' = FALSE
    /\ data_to_filter' = List(<<>>)
    /\ output_opened' = FALSE
    /\ output_header' = <<>>
    /\ output_rows' = <<>>
    /\ summary' = NoSummary
    /\ UNCHANGED file

Next ==
    \/ Configure
    \/ ReadHeader
    \/ ResolveColumn
    \/ InvertColumns
    \/ OpenOutput
    \/ FilterLine
    \/ Summary
    \/ InvokeInverted

Spec == Init /\ [][Next]_vars

(***************************************************************************)
(* Properties.                                                             *)
(***************************************************************************)
\* The input line n is among the data rows of an output file.
Written(rows, n) == \E i \in 1..Len(rows) : rows[i].line_num = n

\* Every row of an output file is the input line it came from, unmodified,
\* and lines are written once, in input order.
Unmodified(rows) ==
    /\ \A i \in 1..Len(rows) :
           rows[i].line_num \in 2..Len(file) /\ rows[i].row = file[rows[i].line_num]
    /\ \A i \in 1..Len(rows), j \in 1..Len(rows) :
           i < j => rows[i].line_num < rows[j].line_num

\* String mode or range mode was selected (lines 77-107).
RowMode == ModeExit(args) = 0 /\ (Truthy(args.strings) \/ RangeBranch(args))

\* The run reached the write-or-skip decision of line 232 for input line n.
DecidedAt(n, at_line, at_pc) ==
    n >= 2 /\ n <= at_line /\ ~(at_pc = "crashed" /\ n = at_line)

\* The exception of err was raised by a field access of the row loop.
RowIndexError == err.exc = "IndexError" /\ err.line \in {190, 205, 219}

\* The loop of line 185 accesses line[column] (lines 190, 205, 219).
AccessesFields ==
    strings # {} \/ Truthy(minimum) \/ Truthy(maximum) \/ filter_columns_only

Accessible(line, k) == PyIndex(line, columns_to_filter[k]) # 0

FieldAt(line, k) == line[PyIndex(line, columns_to_filter[k])]

\* The k-th selected column of the line exists and satisfies the filter.
ColumnMatches(line, k) ==
    /\ Accessible(line, k)
    /\ IF strings # {}
       THEN StringMatch(IF args.ignore_cases THEN Lower(FieldAt(line, k))
                        ELSE FieldAt(line, k),
                        strings, args.all_words, args.whole_words)
       ELSE /\ Truthy(minimum) \/ Truthy(maximum)
            /\ RangeMatch(minimum, maximum,
                          IF is_number(Str(FieldAt(line, k)))
                          THEN ToFloat(Str(FieldAt(line, k)))
                          ELSE Str(FieldAt(line, k))) = "T"

\* The k-th selected column of the line exists and its comparison raises.
ColumnRaises(line, k) ==
    /\ Accessible(line, k)
    /\ strings = {}
    /\ Truthy(minimum) \/ Truthy(maximum)
    /\ RangeMatch(minimum, maximum,
                  IF is_number(Str(FieldAt(line, k)))
                  THEN ToFloat(Str(FieldAt(line, k)))
                  ELSE Str(FieldAt(line, k))) = "TypeError"

\* No earlier selected column that exists ends the loop by a match or by a
\* comparison that raises.
ReachedColumn(line, k) ==
    \A j \in 1..(k - 1) : ~ColumnMatches(line, j) /\ ~ColumnRaises(line, j)

\* The loop reaches a selected column beyond the length of the line.
ShortAccess(line) ==
    /\ AccessesFields
    /\ \E k \in 1..Len(columns_to_filter) :
           ReachedColumn(line, k) /\ ~Accessible(line, k)

\* Some selected column that exists matches, short columns being skipped.
MatchSkippingShort(line) ==
    \E k \in 1..Len(columns_to_filter) :
        ReachedColumn(line, k) /\ ColumnMatches(line, k)

\* The fields of the selected columns that exist, in selection order.
FieldsSkippingShort(line) ==
    LET ks == SelectSeq([k \in 1..Len(columns_to_filter) |-> k],
                        LAMBDA k : Accessible(line, k))
    IN  [i \in 1..Len(ks) |-> FieldAt(line, ks[i])]

\* C1, as claimed: in string mode and in range mode every data row of the
\* input is written by exactly one of the two runs (invert=False,
\* invert=True), unmodified.
C1_InvertComplementAllRows ==
    (run = 2 /\ Ended /\ RowMode /\ first_run.output_opened /\ output_opened) =>
        /\ \A n \in 2..Len(file) :
               Written(first_run.output_rows, n) # Written(output_rows, n)
        /\ Unmodified(first_run.output_rows)
        /\ Unmodified(output_rows)

\* C1, amended: in string mode and in range mode the two runs end at the same
\* input line in the same way; every data row the runs reach a write decision
\* for is written by exactly one of them, unmodified, and a row from the one
\* at which an exception ended the runs on is written by neither.
C1_InvertComplementOfDecidedRows ==
    (run = 2 /\ Ended /\ RowMode) =>
        /\ first_run.pc = pc
        /\ first_run.err = err
        /\ first_run.line_num = line_num
        /\ \A n \in 2..Len(file) :
               IF DecidedAt(n, line_num, pc)
               THEN Written(first_run.output_rows, n) # Written(output_rows, n)
               ELSE ~Written(first_run.output_rows, n) /\ ~Written(output_rows, n)
        /\ Unmodified(first_run.output_rows)
        /\ Unmodified(output_rows)

\* C1, witness: both runs completed over two data rows and each wrote one.
C1_Witness ==
    /\ run = 2 /\ pc = "done" /\ RowMode
    /\ Len(file) = 3
    /\ Len(first_run.output_rows) = 1
    /\ Len(output_rows) = 1

\* Token i of the column list is no integer and no title of the header.
UnknownToken(i) ==
    /\ i \in 1..Len(columns)
    /\ ~ParseInt(columns[i]).ok
    /\ columns[i] \notin Range(file[1])

\* Token i of the column list is a title or a 1-based index of the header.
ValidToken(i) ==
    /\ i \in 1..Len(columns)
    /\ \/ columns[i] \in Range(file[1])
       \/ ParseInt(columns[i]).ok /\ ParseInt(columns[i]).val \in 1..Len(file[1])

NamedPositions ==
    {q \in 1..Len(file[1]) :
        \E i \in 1..Len(columns) :
            \/ columns[i] = file[1][q]
            \/ ParseInt(columns[i]).ok /\ ParseInt(columns[i]).val = q}

\* The ascending sequence of the header positions not named.
KeptPositions == SelectSeq([q \in 1..Len(file[1]) |-> q],
                           LAMBDA q : q \notin NamedPositions)

\* Every token names a column, and no token is both an integer and a title.
TokensResolve ==
    /\ Len(columns) >= 1
    /\ \A i \in 1..Len(columns) :
           /\ ValidToken(i)
           /\ ~(ParseInt(columns[i]).ok /\ columns[i] \in Range(file[1]))

\* C2: in column-only mode with invert, a token list that resolves to the set
\* S of columns (a column may be named more than once) gives an output header
\* and output rows made of exactly the header columns not in S, in ascending
\* header order.
C2_InvertedCutIsComplement ==
    (/\ filter_columns_only /\ args.invert
     /\ pc \notin {"start", "configured", "resolve"}
     /\ TokensResolve) =>
        /\ ~(pc = "crashed" /\ err.line \in {166, 168})
        /\ output_opened =>
               /\ output_header =
                      [i \in 1..Len(KeptPositions) |-> file[1][KeptPositions[i]]]
               /\ columns_to_filter =
                      [i \in 1..Len(KeptPositions) |-> KeptPositions[i] - 1]

\* Some token of the column list is an integer outside 1..len(header).
OutOfRangeToken ==
    \E i \in 1..Len(columns) :
        /\ ParseInt(columns[i]).ok
        /\ ParseInt(columns[i]).val \notin 1..Len(file[1])

\* C3: a column token that is an integer outside 1..len(header), zero in any
\* spelling and negative integers included, ends the run before the output
\* file is opened and is never resolved to a column.
C3_OutOfRangeIndexIsFatal ==
    (pc # "start" /\ OutOfRangeToken) =>
        /\ ~output_opened
        /\ pc \in {"configured", "resolve"} \/ Ended
        /\ \A i \in 1..Len(columns) :
               (/\ ParseInt(columns[i]).ok
                /\ ParseInt(columns[i]).val \notin 1..Len(file[1])
                /\ column_i >= i) => Ended

\* C4: a token that is equal to a header title resolves to the position of
\* that title, also when the token reads as an integer and also when the
\* tokens are the header itself.
C4_TitleFirst ==
    (pc = "resolve" \/ (Ended /\ err.line \in {143, 145, 150})) =>
        \A k \in 1..column_i :
            columns[k] \in Range(file[1]) =>
                /\ err.exc = "none" \/ k < column_i
                /\ Len(columns_to_filter) >= k
                /\ columns_to_filter[k] \in 0..(Len(file[1]) - 1)
                /\ file[1][columns_to_filter[k] + 1] = columns[k]

\* A bound argument is absent or a number.
NumericBound(v) == v = None \/ is_number(v)

\* The number v satisfies the bounds that were given.
WithinBounds(v) ==
    /\ args.minimum # None => ParseInt(args.minimum.str).val <= v
    /\ args.maximum # None => v <= ParseInt(args.maximum.str).val

\* C5: in range mode with numeric bounds (0 included) a row of numeric fields
\* matches iff some selected column lies within the bounds that were given.
C5_RangeMatchesBounds ==
    (/\ RangeBranch(args) /\ ModeExit(args) = 0
     /\ NumericBound(args.minimum) /\ NumericBound(args.maximum)
     /\ pc \in {"rows", "done"} /\ line_num >= 2
     /\ \A k \in 1..Len(columns_to_filter) :
            /\ columns_to_filter[k] \in 0..(Len(file[line_num]) - 1)
            /\ is_number(Str(file[line_num][columns_to_filter[k] + 1]))) =>
        filter_match =
            \E k \in 1..Len(columns_to_filter) :
                WithinBounds(ParseInt(file[line_num][columns_to_filter[k] + 1]).val)

\* A string YYYY-MM-DD of a calendar day.
DateOnly(v) ==
    v.kind = "str" /\ Len(v.str) = 10
        /\ StrptimeOk(v.str \o <<" ">> \o Time000000)

\* The UTC timestamp of a time of day on the day of a date string.
TimestampOn(s, time) ==
    datetime_to_timestamp(DateFields(Slice(s, 0, 10) \o <<" ">> \o time))

\* C6: a date bound is resolved before any row is read to a UTC timestamp: a
\* date-only minimum to 00:00:00 of the day, a date-only maximum to 23:59:59
\* of the day, a date with a time of day to that time.
C6_DateBoundsResolved ==
    (pc # "start" /\ RangeBranch(args) /\ ModeExit(args) = 0) =>
        /\ DateOnly(args.minimum) =>
               minimum = Float(TimestampOn(args.minimum.str, Time000000))
        /\ DateOnly(args.maximum) =>
               maximum = Float(TimestampOn(args.maximum.str, Time235959))
        /\ is_date(args.minimum) =>
               minimum = Float(TimestampOn(args.minimum.str,
                                           Slice(args.minimum.str, 11, 19)))
        /\ is_date(args.maximum) =>
               maximum = Float(TimestampOn(args.maximum.str,
                                           Slice(args.maximum.str, 11, 19)))

\* C9: in column-only mode, for either value of invert, a row is written iff
\* the list of fields accumulated from the kept columns is not empty.
C9_ColumnOnlyWritesNonEmpty ==
    (filter_columns_only /\ pc \in {"rows", "done"} /\ line_num >= 2) =>
        (Written(output_rows, line_num) = (data_to_filter.list # <<>>))

\* C10: at the end of a column-only run the total of the summary is the
\* number of titles of the input header, the matched count is the number of
\* columns of the output header, and unmatched is total minus matched.
C10_ColumnCounters ==
    (pc = "done" /\ filter_columns_only) =>
        /\ summary.header_total = Len(file[1])
        /\ summary.header_matched = Len(output_header)
        /\ summary.header_unmatched =
               summary.header_total - summary.header_matched

====
